---- MODULE Spec2Model ----
(***************************************************************************)
(* A model of the archive-review backend: the tree walk (collectFiles,     *)
(* locatePackageJson), the heuristic scan (scanCodeFiles), the report      *)
(* (generateQualityReport) and the two upload handlers (POST /upload of    *)
(* src/index.js, POST /review of src/unnamed/part_000).                    *)
(*                                                                         *)
(* An entry name is the record [stem, ext] that path.parse gives for it    *)
(* (ext is what path.extname returns, "" for dot-files such as ".git").    *)
(* A path is the sequence of its components; the directory a walk starts   *)
(* from is a prefix of the paths below it.                                 *)
(***************************************************************************)
EXTENDS Integers, Sequences, FiniteSets, TLC

VARIABLES tree, order, root, collected, located, walkPc,
          repIn, repOut, repPc,
          scanFiles, scanFs, scanUnreadable, scanOut, scanPc,
          now, endpoint, hasFile, archive, pc, extractDir, made, report, sent, client,
          dirExists, dirContent, uploads

walkVars == <<tree, order, root, collected, located, walkPc>>
repVars == <<repIn, repOut, repPc>>
scanVars == <<scanFiles, scanFs, scanUnreadable, scanOut, scanPc>>
inVars == <<endpoint, hasFile, archive>>
diskVars == <<dirExists, dirContent, uploads>>
reqVars == <<now, inVars, pc, extractDir, made, report, sent, client, diskVars>>
vars == <<walkVars, repVars, scanVars, reqVars>>

----------------------------------------------------------------------------
(* Bounds of the model *)

MaxDepth == 2
MaxFiles == 2
MaxIdents == 2
MaxLongLines == 45
MaxCodeFiles == 22
MaxUnreadable == 1
NumReq == 2
MaxClock == 2

----------------------------------------------------------------------------
(* Names and paths *)

Dir(s) == [stem |-> s, ext |-> ""]
File(s, e) == [stem |-> s, ext |-> e]

NULL == <<>>

EXCLUDE_FOLDERS ==
    <<Dir("node_modules"), Dir(".git"), Dir("dist"), Dir("build"), Dir(".vscode")>>

Range(s) == {s[i] : i \in 1..Len(s)}
Includes(s, x) == x \in Range(s)

PackageJson == File("package", ".json")
SrcDir == Dir("src")

\* The names an archive of the model is built from, in one enumeration order.
FileNames == <<PackageJson, File("app", ".js"), File("README", ".md")>>
AllNames == EXCLUDE_FOLDERS \o <<SrcDir>> \o FileNames \o <<File(".env", "")>>

Reverse(s) == [i \in 1..Len(s) |-> s[Len(s) + 1 - i]]

IsPrefix(p, q) == Len(p) <= Len(q) /\ SubSeq(q, 1, Len(p)) = p

\* path.extname, name.startsWith('.env'), path.join, path.relative, path.dirname
ExtName(name) == name.ext
StartsWithEnv(name) == name.stem = ".env"
Join(dir, name) == Append(dir, name)
Relative(baseDir, fullPath) == SubSeq(fullPath, Len(baseDir) + 1, Len(fullPath))
DirName(p) == SubSeq(p, 1, Len(p) - 1)
BaseName(p) == p[Len(p)]

----------------------------------------------------------------------------
(* The file system below an extraction directory: the set of its file      *)
(* paths; the directories are the proper prefixes of these.                *)

IsFile(t, p) == p \in t
IsDirectory(t, p) == \E q \in t : IsPrefix(p, q) /\ Len(q) > Len(p)
Dirs(t) == UNION {{SubSeq(q, 1, k) : k \in 0..(Len(q) - 1)} : q \in t}

\* fs.readdir(dir, {withFileTypes: true}): the entries of dir, in the
\* enumeration order ord of the file system.
ReadDir(t, ord, dir) ==
    SelectSeq(ord, LAMBDA n : \E q \in t : IsPrefix(Join(dir, n), q))

Excluded(name) == Includes(EXCLUDE_FOLDERS, name)

validExts == <<".js", ".ts", ".jsx", ".tsx", ".json">>

RECURSIVE collectEntriesTopOnly(_, _, _, _, _)
collectEntriesTopOnly(t, ord, entries, dir, baseDir) ==
    IF entries = <<>> THEN <<>>
    ELSE LET entry == Head(entries)
             fullPath == Join(dir, entry)
             rest == collectEntriesTopOnly(t, ord, Tail(entries), dir, baseDir)
         IN  IF dir = baseDir /\ Excluded(entry) THEN rest
             ELSE IF IsDirectory(t, fullPath)
                  THEN collectEntriesTopOnly(t, ord, ReadDir(t, ord, fullPath),
                                             fullPath, baseDir) \o rest
             ELSE IF Includes(validExts, ExtName(entry)) \/ StartsWithEnv(entry)
                  THEN <<Relative(baseDir, fullPath)>> \o rest
             ELSE rest

\* collectFiles with the exclusion check made at the top level only
collectFilesTopOnly(t, ord, dir, baseDir) ==
    collectEntriesTopOnly(t, ord, ReadDir(t, ord, dir), dir, baseDir)

RECURSIVE collectEntries(_, _, _, _, _)
collectFiles(t, ord, dir, baseDir) ==
    collectEntries(t, ord, ReadDir(t, ord, dir), dir, baseDir)

\* the loop of collectFiles over the entries of dir
collectEntries(t, ord, entries, dir, baseDir) ==
    IF entries = <<>> THEN <<>>
    ELSE LET entry == Head(entries)
             fullPath == Join(dir, entry)
             rest == collectEntries(t, ord, Tail(entries), dir, baseDir)
         IN  IF Excluded(entry) THEN rest
             ELSE IF IsDirectory(t, fullPath)
                  THEN collectFiles(t, ord, fullPath, baseDir) \o rest
             ELSE IF Includes(validExts, ExtName(entry)) \/ StartsWithEnv(entry)
                  THEN <<Relative(baseDir, fullPath)>> \o rest
             ELSE rest

RECURSIVE locateEntriesNoSkip(_, _, _, _)
locateEntriesNoSkip(t, ord, entries, dir) ==
    IF entries = <<>> THEN NULL
    ELSE LET entry == Head(entries)
             fullPath == Join(dir, entry)
             rest == locateEntriesNoSkip(t, ord, Tail(entries), dir)
         IN  IF IsFile(t, fullPath) /\ entry = PackageJson THEN fullPath
             ELSE IF IsDirectory(t, fullPath)
                  THEN LET result == locateEntriesNoSkip(t, ord,
                                         ReadDir(t, ord, fullPath), fullPath)
                       IN  IF result # NULL THEN result ELSE rest
             ELSE rest

\* locatePackageJson without the EXCLUDE_FOLDERS check
locatePackageJsonNoSkip(t, ord, dir) ==
    locateEntriesNoSkip(t, ord, ReadDir(t, ord, dir), dir)

RECURSIVE locateEntries(_, _, _, _)
locatePackageJson(t, ord, dir) ==
    locateEntries(t, ord, ReadDir(t, ord, dir), dir)

\* the loop of locatePackageJson over the entries of dir
locateEntries(t, ord, entries, dir) ==
    IF entries = <<>> THEN NULL
    ELSE LET entry == Head(entries)
             fullPath == Join(dir, entry)
             rest == locateEntries(t, ord, Tail(entries), dir)
         IN  IF Excluded(entry) THEN rest
             ELSE IF IsFile(t, fullPath) /\ entry = PackageJson THEN fullPath
             ELSE IF IsDirectory(t, fullPath)
                  THEN LET result == locatePackageJson(t, ord, fullPath)
                       IN  IF result # NULL THEN result ELSE rest
             ELSE rest

----------------------------------------------------------------------------
(* The walk specification: a bounded extracted tree, and the two walks     *)
(* applied to it.                                                          *)

SeqsUpTo(S, n) == UNION {[1..k -> S] : k \in 0..n}

RECURSIVE SubsetsUpTo(_, _)
SubsetsUpTo(S, k) ==
    IF k = 0 THEN {{}}
    ELSE LET smaller == SubsetsUpTo(S, k - 1)
         IN  smaller \cup {s \cup {x} : s \in smaller, x \in S}

\* The trees whose directories are named from dirNames: at most MaxFiles
\* files, each at most MaxDepth directories deep.
TreesOver(dirNames) ==
    SubsetsUpTo({d \o <<f>> : d \in SeqsUpTo(dirNames, MaxDepth), f \in Range(FileNames)},
                MaxFiles)

Orders == {AllNames, Reverse(AllNames)}

WalkIdle ==
    /\ tree = {} /\ order = AllNames /\ root = <<>>
    /\ collected = <<>> /\ located = NULL /\ walkPc = "idle"

\* Each specification below runs one part of the program and holds the
\* state of the other parts at these values.
NoReport == [watched_files |-> <<>>, improvements |-> <<>>, quality_rating |-> ""]
NoInput == [identifiers |-> <<>>, readability |-> [totalLines |-> 0, longLines |-> 0],
            envs |-> <<>>, files |-> <<>>]

RepIdle == repIn = NoInput /\ repOut = NoReport /\ repPc = "idle"

NoScan == [identifiers |-> <<>>, readability |-> [totalLines |-> 0, longLines |-> 0],
           analyzedFiles |-> <<>>, reads |-> <<>>, threw |-> FALSE]

ScanIdle ==
    /\ scanFiles = <<>> /\ scanFs = <<>> /\ scanUnreadable = {}
    /\ scanOut = NoScan /\ scanPc = "idle"

Req == 1..NumReq
NoDir == <<"", 0>>
DirKeys == {"temp", "extracted"} \X (0..MaxClock)

ReqIdle ==
    /\ now = 0
    /\ endpoint = [r \in Req |-> "upload"]
    /\ hasFile = [r \in Req |-> FALSE]
    /\ archive = [r \in Req |-> [files |-> {}, corrupt |-> FALSE]]
    /\ pc = [r \in Req |-> "idle"]
    /\ extractDir = [r \in Req |-> NoDir]
    /\ made = [r \in Req |-> FALSE]
    /\ report = [r \in Req |-> NoReport]
    /\ sent = [r \in Req |-> <<>>]
    /\ client = [r \in Req |-> <<>>]
    /\ dirExists = {}
    /\ dirContent = [d \in DirKeys |-> {}]
    /\ uploads = {}

WalkInit ==
    /\ RepIdle
    /\ ScanIdle
    /\ ReqIdle
    /\ \E x \in Range(EXCLUDE_FOLDERS) : tree \in TreesOver({x, SrcDir})
    /\ order \in Orders
    /\ root = <<>>
    /\ collected = <<>>
    /\ located = NULL
    /\ walkPc = "init"

CollectFiles ==
    /\ walkPc = "init"
    /\ \E dir \in Dirs(tree) \cup {<<>>} :
          /\ root' = dir
          /\ collected' = collectFiles(tree, order, dir, dir)
    /\ walkPc' = "collected"
    /\ UNCHANGED <<tree, order, located, repVars, scanVars, reqVars>>

LocatePackageJson ==
    /\ walkPc = "init"
    /\ located' = locatePackageJson(tree, order, <<>>)
    /\ walkPc' = "located"
    /\ UNCHANGED <<tree, order, root, collected, repVars, scanVars, reqVars>>

WalkNext == CollectFiles \/ LocatePackageJson

SpecWalk == WalkInit /\ [][WalkNext]_vars

----------------------------------------------------------------------------
(* C3: collectFiles never returns a relative path with a component named   *)
(* in EXCLUDE_FOLDERS, whatever the tree, the root and the nesting depth.  *)
C3_NoExcludedComponent ==
    walkPc = "collected" =>
        \A i \in 1..Len(collected) :
            \A k \in 1..Len(collected[i]) : ~Excluded(collected[i][k])

\* a walk that met an excluded directory below the top level of its root,
\* with a collectable file under it, and returned other files
C3_Witness ==
    /\ walkPc = "collected"
    /\ collected # <<>>
    /\ \E q \in tree :
          /\ IsPrefix(root, q)
          /\ Len(q) >= Len(root) + 3
          /\ Excluded(q[Len(root) + 2])
          /\ ~Excluded(q[Len(root) + 1])
          /\ ExtName(BaseName(q)) = ".js"

(* C7 as stated: null for a tree with no file named package.json, and the  *)
(* path of the file for a tree with exactly one, wherever it lies.         *)
PackageJsons(t) == {q \in t : BaseName(q) = PackageJson}

C7_AsStated ==
    walkPc = "located" =>
        /\ PackageJsons(tree) = {} => located = NULL
        /\ Cardinality(PackageJsons(tree)) = 1 => located \in PackageJsons(tree)

(* C7 amended: null for a tree with no file named package.json; for a tree *)
(* with exactly one, its path when none of its directories is named in     *)
(* EXCLUDE_FOLDERS, at any depth, and null when one is.                    *)
UnderExcluded(q) == \E k \in 1..(Len(q) - 1) : Excluded(q[k])

C7_Amended ==
    walkPc = "located" =>
        /\ PackageJsons(tree) = {} => located = NULL
        /\ \A q \in tree :
              PackageJsons(tree) = {q} =>
                  located = (IF UnderExcluded(q) THEN NULL ELSE q)

\* the one package.json lies MaxDepth directories deep, beside another file
C7_Witness ==
    /\ walkPc = "located"
    /\ Cardinality(tree) > 1
    /\ \E q \in tree :
          /\ PackageJsons(tree) = {q}
          /\ Len(q) > MaxDepth
          /\ located = q

----------------------------------------------------------------------------
(* generateQualityReport.  description and deps do not reach the rating or *)
(* the improvements (uncommonDeps is computed and never used), so the      *)
(* operator takes the four inputs that do.                                 *)

Min(a, b) == IF a < b THEN a ELSE b
Max(a, b) == IF a > b THEN a ELSE b

\* f.includes('route'), f.includes('controller') on a relative path: the
\* word has no '/' and no '.', so it lies inside one component's stem.
RouteStems == {"route", "routes"}
ControllerStems == {"controller", "controllers"}
IncludesRoute(f) == \E k \in 1..Len(f) : f[k].stem \in RouteStems
IncludesController(f) == \E k \in 1..Len(f) : f[k].stem \in ControllerStems

improvementsOf(identifiers, readability, envs, files) ==
    (IF Len(identifiers) > 0
     THEN <<[priority |-> "medium", suggestion |-> "Refactor unusual identifiers",
             named |-> SubSeq(identifiers, 1, Min(3, Len(identifiers)))]>>
     ELSE <<>>)
    \o (IF readability.longLines > 10
        THEN <<[priority |-> "medium", suggestion |-> "Break long lines", named |-> <<>>]>>
        ELSE <<>>)
    \o (IF Len(envs) = 0
        THEN <<[priority |-> "low", suggestion |-> "Add a .env.example file", named |-> <<>>]>>
        ELSE <<>>)
    \o (IF (\E i \in 1..Len(files) : IncludesRoute(files[i]))
           /\ ~(\E i \in 1..Len(files) : IncludesController(files[i]))
        THEN <<[priority |-> "high", suggestion |-> "Separate routes from controller logic",
                named |-> <<>>]>>
        ELSE <<>>)

qualityRatingOf(improvements, readability) ==
    10 - Len(improvements) - Min(2, readability.longLines \div 20)

\* the clamp with its lower limit forgotten
clampNoFloor(qualityRating) == Min(qualityRating, 9)

\* Math.max(6, Math.min(qualityRating, 9))
clamp(qualityRating) == Max(6, Min(qualityRating, 9))

\* Number.prototype.toFixed(1) of an integer
toFixed1(n) == ToString(n) \o ".0"

generateQualityReport(identifiers, readability, envs, files) ==
    LET improvements == improvementsOf(identifiers, readability, envs, files)
        clampedRating == toFixed1(clamp(qualityRatingOf(improvements, readability)))
    IN  [watched_files |-> files,
         improvements |-> improvements,
         quality_rating |-> clampedRating \o "/10"]

\* the inputs of the report specification
IdentPool == {<<"x">>, <<"_", "_">>}
LongLinesPool == (0..MaxLongLines) \cup {10000}
EnvsPool == {<<>>, <<<<File(".env", "")>>>>}
ReportFilesPool ==
    { <<>>,
      <<<<File("app", ".js")>>>>,
      <<<<Dir("routes"), File("users", ".js")>>>>,
      <<<<Dir("routes"), File("users", ".js")>>, <<Dir("controllers"), File("users", ".js")>>>> }

ReportInit ==
    /\ WalkIdle
    /\ ScanIdle
    /\ ReqIdle
    /\ repIn \in [identifiers : SeqsUpTo(IdentPool, MaxIdents),
                  readability : [totalLines : {10000}, longLines : LongLinesPool],
                  envs : EnvsPool,
                  files : ReportFilesPool]
    /\ repOut = NoReport
    /\ repPc = "init"

GenerateQualityReport ==
    /\ repPc = "init"
    /\ repOut' = generateQualityReport(repIn.identifiers, repIn.readability,
                                       repIn.envs, repIn.files)
    /\ repPc' = "done"
    /\ UNCHANGED <<repIn, walkVars, scanVars, reqVars>>

ReportNext == GenerateQualityReport

SpecReport == ReportInit /\ [][ReportNext]_vars

(* C2: for every input the rating is a number of [6.0, 9.0] with one       *)
(* decimal place, followed by "/10".                                       *)
C2_RatingClamped ==
    repPc = "done" => repOut.quality_rating \in {"6.0/10", "7.0/10", "8.0/10", "9.0/10"}

\* four improvements and 10,000 long lines: 10 - 4 - 2 is below the clamp
C2_Witness ==
    /\ repPc = "done"
    /\ repIn.readability.longLines = 10000
    /\ Len(repOut.improvements) = 4
    /\ repOut.quality_rating = "6.0/10"

\* no improvement and no long line: 10 is above the clamp
C2_WitnessTop ==
    /\ repPc = "done"
    /\ repIn.readability.longLines = 0
    /\ Len(repOut.improvements) = 0
    /\ repOut.quality_rating = "9.0/10"

----------------------------------------------------------------------------
(* scanCodeFiles.  The text of a file is modelled by what the two          *)
(* heuristics take from it: decls, the names the declaration regex         *)
(* captures in order (each a sequence of characters), and lines, the       *)
(* lengths of the pieces code.split('\n') gives (at least one).            *)

SampleSize == 20
LongLine == 120

AllUnderscores(name) == Len(name) > 0 /\ \A k \in 1..Len(name) : name[k] = "_"
LoopCounters == <<<<"i">>, <<"j">>, <<"k">>>>
\* the capture group [a-zA-Z0-9_$]+ admits no other character
OutsideAlphabet(name) == FALSE

Strange(name) ==
    \/ AllUnderscores(name)
    \/ (Len(name) = 1 /\ ~Includes(LoopCounters, name))
    \/ OutsideAlphabet(name)

\* [...new Set(names)]: the first occurrence of each name, in order
RECURSIVE Dedup(_)
Dedup(names) ==
    IF names = <<>> THEN <<>>
    ELSE LET front == Dedup(SubSeq(names, 1, Len(names) - 1))
             last == names[Len(names)]
         IN  IF Includes(front, last) THEN front ELSE Append(front, last)

detectStrangeIdentifiers(code) == Dedup(SelectSeq(code.decls, Strange))

assessReadability(code) ==
    [totalLines |-> Len(code.lines),
     longLines |-> Len(SelectSeq(code.lines, LAMBDA n : n > LongLine))]

codeExtensions == <<".js", ".ts", ".jsx", ".tsx">>
IsCode(f) == Includes(codeExtensions, ExtName(BaseName(f)))

\* Array.prototype.sort with the comparator a.split('/').length -
\* b.split('/').length: a stable sort on the number of components
RECURSIVE FlattenSeq(_)
FlattenSeq(ss) == IF ss = <<>> THEN <<>> ELSE Head(ss) \o FlattenSeq(Tail(ss))
MaxLen(fs) == IF fs = <<>> THEN 0 ELSE CHOOSE m \in {Len(fs[i]) : i \in 1..Len(fs)} :
                                         \A i \in 1..Len(fs) : Len(fs[i]) <= m
SortByDepth(fs) ==
    FlattenSeq([d \in 1..MaxLen(fs) |-> SelectSeq(fs, LAMBDA f : Len(f) = d)])

\* the sample without .slice(0, 20)
sampleAll(files) == SortByDepth(SelectSeq(files, IsCode))

\* codeFiles.sort(...).slice(0, 20)
sample(files) ==
    LET sorted == SortByDepth(SelectSeq(files, IsCode))
    IN  SubSeq(sorted, 1, Min(SampleSize, Len(sorted)))

\* the body of the try block once fs.readFile has returned content
onRead(st, file, content) ==
    LET readability == assessReadability(content)
    IN  [st EXCEPT
           !.analyzedFiles = Append(@, file),
           !.identifiers = @ \o detectStrangeIdentifiers(content),
           !.readability = [totalLines |-> @.totalLines + readability.totalLines,
                            longLines |-> @.longLines + readability.longLines]]

\* a read failure that is not caught: the scan ends by throwing
readFailureThrows(st) == [st EXCEPT !.threw = TRUE]

\* catch { continue; }
onReadFailure(st) == st

\* the for loop over the sampled files; reads logs every fs.readFile call
RECURSIVE scanLoop(_, _, _, _)
scanLoop(fs, unreadable, sampled, st) ==
    IF sampled = <<>> \/ st.threw THEN st
    ELSE LET file == Head(sampled)
             st1 == [st EXCEPT !.reads = Append(@, file)]
         IN  scanLoop(fs, unreadable, Tail(sampled),
                      IF file \in unreadable THEN onReadFailure(st1)
                      ELSE onRead(st1, file, fs[file]))

scanCodeFiles(fs, unreadable, files) == scanLoop(fs, unreadable, sample(files), NoScan)

\* the inputs of the scan specification
CodeFile(i) ==
    LET name == File("f" \o ToString(i), codeExtensions[(i % 4) + 1])
    IN  CASE i % 3 = 1 -> <<SrcDir, Dir("lib"), name>>
          [] i % 3 = 2 -> <<SrcDir, name>>
          [] OTHER -> <<name>>

Content(i, v) ==
    [decls |-> CASE (i + v) % 3 = 0 -> <<<<"x">>>>
                 [] (i + v) % 3 = 1 -> <<<<"_", "_">>, <<"x">>, <<"x">>, <<"i">>>>
                 [] OTHER -> <<<<"f", "o", "o">>>>,
     lines |-> IF i % 2 = 0 THEN <<10>> ELSE <<120, 121, 0>>]

ConfigFiles == <<<<PackageJson>>, <<File(".env", "")>>>>

ScanInit ==
    /\ WalkIdle
    /\ RepIdle
    /\ ReqIdle
    /\ \E n \in 0..MaxCodeFiles, withConfig \in BOOLEAN, rev \in BOOLEAN, v \in 0..2 :
          LET code == [i \in 1..n |-> CodeFile(i)]
              list == (IF withConfig THEN ConfigFiles ELSE <<>>) \o code
          IN  /\ scanFiles = (IF rev THEN Reverse(list) ELSE list)
              /\ scanFs = [f \in Range(code) |->
                              Content(CHOOSE i \in 1..n : CodeFile(i) = f, v)]
              /\ scanUnreadable \in SubsetsUpTo(Range(code), MaxUnreadable)
    /\ scanOut = NoScan
    /\ scanPc = "init"

ScanCodeFiles ==
    /\ scanPc = "init"
    /\ scanOut' = scanCodeFiles(scanFs, scanUnreadable, scanFiles)
    /\ scanPc' = "done"
    /\ UNCHANGED <<scanFiles, scanFs, scanUnreadable, walkVars, repVars, reqVars>>

ScanNext == ScanCodeFiles

SpecScan == ScanInit /\ [][ScanNext]_vars

CodeCandidates == {f \in Range(scanFiles) : IsCode(f)}

(* C4 as stated: at most 20 files are read whatever the candidate list,    *)
(* and a list of 5 candidates has all 5 read.                              *)
C4_AsStated ==
    scanPc = "done" =>
        /\ Len(scanOut.reads) <= 20
        /\ Len(scanOut.analyzedFiles) <= 20
        /\ Len(scanFiles) = 5 => Range(scanOut.reads) = Range(scanFiles)

(* C4 amended: at most 20 files are read whatever the candidate list, so   *)
(* analyzedFiles has at most 20 entries; given 5 candidates that all have  *)
(* a code extension (.js, .ts, .jsx, .tsx) all 5 are read, and a candidate *)
(* with another extension is never read.                                   *)
C4_Amended ==
    scanPc = "done" =>
        /\ Len(scanOut.reads) <= 20
        /\ Len(scanOut.analyzedFiles) <= 20
        /\ Range(scanOut.reads) \subseteq CodeCandidates
        /\ (Len(scanFiles) = 5 /\ Cardinality(CodeCandidates) = 5) =>
              (Range(scanOut.reads) = Range(scanFiles) /\ Len(scanOut.reads) = 5)

\* more than 20 code candidates were given and exactly 20 were read
C4_Witness ==
    /\ scanPc = "done"
    /\ Cardinality(CodeCandidates) > 20
    /\ Len(scanOut.reads) = 20

\* 5 code candidates were given and 5 were read
C4_WitnessFive ==
    /\ scanPc = "done"
    /\ Len(scanFiles) = 5
    /\ Cardinality(CodeCandidates) = 5
    /\ Len(scanOut.reads) = 5

(* C6: no name appears twice in the identifiers of a scan.                 *)
C6_IdentifiersDistinct ==
    scanPc = "done" =>
        \A i, j \in 1..Len(scanOut.identifiers) :
            scanOut.identifiers[i] = scanOut.identifiers[j] => i = j

(* C8: a failed read ends nothing: no exception leaves the scan, every     *)
(* sampled file is read, analyzedFiles is the readable sampled files in    *)
(* order, and identifiers, totalLines and longLines are made of the        *)
(* readable sampled files alone.                                           *)
RECURSIVE SumLines(_, _)
SumLines(fs, long) ==
    IF fs = <<>> THEN 0
    ELSE LET lines == scanFs[Head(fs)].lines
         IN  (IF long THEN Cardinality({k \in 1..Len(lines) : lines[k] > 120})
              ELSE Len(lines)) + SumLines(Tail(fs), long)

C8_ReadFailureSkipped ==
    scanPc = "done" =>
        LET readable == SelectSeq(scanOut.reads, LAMBDA f : f \notin scanUnreadable)
        IN  /\ ~scanOut.threw
            /\ Len(scanOut.reads) = Min(20, Cardinality(CodeCandidates))
            /\ scanOut.analyzedFiles = readable
            /\ scanOut.readability.totalLines = SumLines(readable, FALSE)
            /\ scanOut.readability.longLines = SumLines(readable, TRUE)
            /\ scanOut.identifiers =
                   FlattenSeq([k \in 1..Len(readable) |->
                                  detectStrangeIdentifiers(scanFs[readable[k]])])

\* a read failed, and files read after it were analyzed
C8_Witness ==
    /\ scanPc = "done"
    /\ \E k \in 1..Len(scanOut.reads) :
          /\ scanOut.reads[k] \in scanUnreadable
          /\ k < Len(scanOut.reads)
          /\ scanOut.reads[k + 1] \in Range(scanOut.analyzedFiles)
    /\ scanOut.identifiers # <<>>

----------------------------------------------------------------------------
(* The two handlers, POST /upload (src/index.js) and POST /review          *)
(* (src/unnamed/part_000), run by concurrent requests.  A step is the code *)
(* a handler runs between two awaits; the steps of different requests      *)
(* interleave.  now is Date.now(): it advances by Tick, and need not       *)
(* advance between two steps.  sent[r] is what the handler passed to       *)
(* res.json, in order; client[r] is what the client received.              *)

Resp(status, body) == [status |-> status, body |-> body]
Error(text) == [error |-> text]

\* the text of an extracted file
TextOf(f) == [decls |-> <<<<"x">>, <<"i">>>>, lines |-> <<10, 121>>]

Good == [files |-> {<<PackageJson>>, <<SrcDir, File("app", ".js")>>}, corrupt |-> FALSE]
NoPkg == [files |-> {<<SrcDir, File("app", ".js")>>}, corrupt |-> FALSE]
Corrupt == [files |-> {}, corrupt |-> TRUE]
NoArchive == [files |-> {}, corrupt |-> FALSE]
ArchivePool == {Good, NoPkg, Corrupt}

Init ==
    /\ WalkIdle
    /\ RepIdle
    /\ ScanIdle
    /\ now = 0
    /\ endpoint \in [Req -> {"upload", "review"}]
    /\ hasFile \in [Req -> BOOLEAN]
    /\ archive \in [Req -> ArchivePool \cup {NoArchive}]
    /\ \A r \in Req : hasFile[r] <=> archive[r] # NoArchive
    /\ pc = [r \in Req |-> "new"]
    /\ extractDir = [r \in Req |-> NoDir]
    /\ made = [r \in Req |-> FALSE]
    /\ report = [r \in Req |-> NoReport]
    /\ sent = [r \in Req |-> <<>>]
    /\ client = [r \in Req |-> <<>>]
    /\ dirExists = {}
    /\ dirContent = [d \in DirKeys |-> {}]
    /\ uploads = {}

others == <<walkVars, repVars, scanVars>>

\* res.status(status).json(body), then the handler returns or falls off its
\* end.  A call after the response has been sent throws
\* ERR_HTTP_HEADERS_SENT: the client keeps the first response.
Respond(r, resp) ==
    /\ sent' = [sent EXCEPT ![r] = Append(@, resp)]
    /\ client' = [client EXCEPT ![r] = IF @ = <<>> THEN <<resp>> ELSE @]

Finish(r) == pc' = [pc EXCEPT ![r] = "done"]
Goto(r, l) == pc' = [pc EXCEPT ![r] = l]

\* upload.single(...): multer has stored the uploaded file, if there is one
Stored(r) == uploads' = (IF hasFile[r] THEN uploads \cup {r} ELSE uploads)

\* fs.mkdir(dir, {recursive: true})
MkDir(d) == dirExists' = dirExists \cup {d}

\* the archive's entries written below d, directories made as needed
ExtractTo(r, d) ==
    /\ dirExists' = dirExists \cup {d}
    /\ dirContent' = [dirContent EXCEPT ![d] = @ \cup archive[r].files]

\* fs.rm(dir, {recursive: true, force: true}), fs.remove(dir)
RmDir(d) ==
    /\ dirExists' = dirExists \ {d}
    /\ dirContent' = [dirContent EXCEPT ![d] = {}]

InternalError == Resp(500, Error("Internal Server Error"))
ReviewError == Resp(500, Error("Something went wrong during review"))

\* index.js 190-203: the report of the project whose package.json is pkgPath
analyze(t, pkgPath) ==
    LET projectRoot == DirName(pkgPath)
        allFiles == collectFiles(t, AllNames, projectRoot, projectRoot)
        envs == SelectSeq(allFiles, LAMBDA f : StartsWithEnv(BaseName(f)))
        scan == scanCodeFiles([f \in Range(allFiles) |-> TextOf(f)], {}, allFiles)
    IN  generateQualityReport(scan.identifiers, scan.readability, envs,
                              scan.analyzedFiles)

\* part_000 80-125: the files reviewed (their order is the comparator's)
reviewed(t) == {f \in t : Includes(<<".js", ".ts", ".json">>, ExtName(BaseName(f)))}

\* index.js 177-184: the check of req.file, the directory name, fs.mkdir issued
UploadStart(r) ==
    /\ pc[r] = "new" /\ endpoint[r] = "upload"
    /\ Stored(r)
    /\ IF ~hasFile[r]
       THEN /\ Respond(r, Resp(400, Error("No file uploaded")))
            /\ Finish(r)
            /\ UNCHANGED extractDir
       ELSE /\ extractDir' = [extractDir EXCEPT ![r] = <<"temp", now>>]
            /\ Goto(r, "mkdir")
            /\ UNCHANGED <<sent, client>>
    /\ UNCHANGED <<now, inVars, made, dirExists, dirContent, report, others>>

\* index.js 184-187: fs.mkdir done, extractAllTo, locatePackageJson issued
UploadExtract(r) ==
    /\ pc[r] = "mkdir" /\ endpoint[r] = "upload"
    /\ made' = [made EXCEPT ![r] = TRUE]
    /\ IF archive[r].corrupt
       THEN /\ MkDir(extractDir[r])
            /\ Respond(r, InternalError)
            /\ Finish(r)
            /\ UNCHANGED dirContent
       ELSE /\ ExtractTo(r, extractDir[r])
            /\ Goto(r, "analyze")
            /\ UNCHANGED <<sent, client>>
    /\ UNCHANGED <<now, inVars, extractDir, uploads, report, others>>

\* index.js 187-205: locatePackageJson, the analysis, fs.rm(extractDir) issued
UploadAnalyze(r) ==
    /\ pc[r] = "analyze" /\ endpoint[r] = "upload"
    /\ IF extractDir[r] \notin dirExists
       THEN Respond(r, InternalError) /\ Finish(r) /\ UNCHANGED report
       ELSE LET pkgPath == locatePackageJson(dirContent[extractDir[r]], AllNames, <<>>)
            IN  IF pkgPath = NULL
                THEN /\ Respond(r, Resp(400, Error("No package.json found")))
                     /\ Finish(r)
                     /\ UNCHANGED report
                ELSE /\ report' = [report EXCEPT
                                     ![r] = analyze(dirContent[extractDir[r]], pkgPath)]
                     /\ Goto(r, "rmDir")
                     /\ UNCHANGED <<sent, client>>
    /\ UNCHANGED <<now, inVars, extractDir, made, diskVars, others>>

\* index.js 205-206: fs.rm(extractDir) done or failed, fs.rm(req.file.path) issued
UploadRmDir(r) ==
    /\ pc[r] = "rmDir" /\ endpoint[r] = "upload"
    /\ \/ RmDir(extractDir[r]) /\ Goto(r, "rmFile") /\ UNCHANGED <<sent, client>>
       \/ Respond(r, InternalError) /\ Finish(r) /\ UNCHANGED <<dirExists, dirContent>>
    /\ UNCHANGED <<now, inVars, extractDir, made, uploads, report, others>>

\* index.js 206-208: fs.rm(req.file.path) done or failed, res.json(report)
UploadRmFile(r) ==
    /\ pc[r] = "rmFile" /\ endpoint[r] = "upload"
    /\ \/ uploads' = uploads \ {r} /\ Respond(r, Resp(200, report[r]))
       \/ Respond(r, InternalError) /\ UNCHANGED uploads
    /\ Finish(r)
    /\ UNCHANGED <<now, inVars, extractDir, made, dirExists, dirContent, report, others>>

\* part_000 66-73: req.file.path read outside the try block.  With no file
\* it throws and the handler's promise rejects without a response from the
\* handler; the framework then either never answers (Express 4) or answers
\* 500 from its error handler (Express 5).
ReviewStart(r) ==
    /\ pc[r] = "new" /\ endpoint[r] = "review"
    /\ Stored(r)
    /\ IF ~hasFile[r]
       THEN /\ \E answer \in {<<>>, <<Resp(500, Error("framework"))>>} :
                 client' = [client EXCEPT ![r] = answer]
            /\ Finish(r)
            /\ UNCHANGED extractDir
       ELSE /\ extractDir' = [extractDir EXCEPT ![r] = <<"extracted", now>>]
            /\ Goto(r, "mkdir")
            /\ UNCHANGED client
    /\ UNCHANGED <<now, inVars, made, sent, dirExists, dirContent, report, others>>

\* part_000 73-77: fs.mkdir done, the extraction stream started
ReviewMkdir(r) ==
    /\ pc[r] = "mkdir" /\ endpoint[r] = "review"
    /\ made' = [made EXCEPT ![r] = TRUE]
    /\ MkDir(extractDir[r])
    /\ Goto(r, "extract")
    /\ UNCHANGED <<now, inVars, extractDir, sent, client, dirContent, uploads, report, others>>

\* part_000 75-80: the extraction done or failed, getAllFilePaths issued
ReviewExtract(r) ==
    /\ pc[r] = "extract" /\ endpoint[r] = "review"
    /\ IF archive[r].corrupt
       THEN Respond(r, ReviewError) /\ Finish(r) /\ UNCHANGED <<dirExists, dirContent>>
       ELSE ExtractTo(r, extractDir[r]) /\ Goto(r, "analyze") /\ UNCHANGED <<sent, client>>
    /\ UNCHANGED <<now, inVars, extractDir, made, uploads, report, others>>

\* part_000 80-133: the files listed and reviewed, res.json, fs.remove(zipPath) issued
ReviewAnalyze(r) ==
    /\ pc[r] = "analyze" /\ endpoint[r] = "review"
    /\ IF extractDir[r] \notin dirExists
       THEN Respond(r, ReviewError) /\ Finish(r)
       ELSE /\ Respond(r, Resp(200, [message |-> "Code Review Completed",
                                      summary |-> reviewed(dirContent[extractDir[r]])]))
            /\ Goto(r, "rmZip")
    /\ UNCHANGED <<now, inVars, extractDir, made, diskVars, report, others>>

\* part_000 133-138: fs.remove(zipPath) done or failed, fs.remove(extractPath) issued
ReviewRmZip(r) ==
    /\ pc[r] = "rmZip" /\ endpoint[r] = "review"
    /\ \/ uploads' = uploads \ {r} /\ Goto(r, "rmDir") /\ UNCHANGED <<sent, client>>
       \/ Respond(r, ReviewError) /\ Finish(r) /\ UNCHANGED uploads
    /\ UNCHANGED <<now, inVars, extractDir, made, dirExists, dirContent, report, others>>

\* part_000 134-138: fs.remove(extractPath) done or failed
ReviewRmDir(r) ==
    /\ pc[r] = "rmDir" /\ endpoint[r] = "review"
    /\ \/ RmDir(extractDir[r]) /\ UNCHANGED <<sent, client>>
       \/ Respond(r, ReviewError) /\ UNCHANGED <<dirExists, dirContent>>
    /\ Finish(r)
    /\ UNCHANGED <<now, inVars, extractDir, made, uploads, report, others>>

\* a millisecond passes
Tick ==
    /\ now < MaxClock
    /\ now' = now + 1
    /\ UNCHANGED <<inVars, pc, extractDir, made, sent, client, diskVars, report, others>>

Next ==
    \/ Tick
    \/ \E r \in Req :
          \/ UploadStart(r) \/ UploadExtract(r) \/ UploadAnalyze(r)
          \/ UploadRmDir(r) \/ UploadRmFile(r)
          \/ ReviewStart(r) \/ ReviewMkdir(r) \/ ReviewExtract(r)
          \/ ReviewAnalyze(r) \/ ReviewRmZip(r) \/ ReviewRmDir(r)

Spec == Init /\ [][Next]_vars

InFlight(r) == pc[r] \notin {"new", "done"}

(* C1: a request that made its extraction directory has, once its handler  *)
(* has finished, neither the directory nor the uploaded archive on disk.   *)
C1_CleanedOnEveryPath ==
    \A r \in Req :
        (pc[r] = "done" /\ made[r]) =>
            (extractDir[r] \notin dirExists /\ r \notin uploads)

(* C5: two requests in flight have distinct extraction directories, and    *)
(* the directory a request has extracted into and not yet removed is still *)
(* on disk.                                                                *)
C5_DisjointDirectories ==
    /\ \A r1, r2 \in Req :
          (r1 # r2 /\ InFlight(r1) /\ InFlight(r2)) => extractDir[r1] # extractDir[r2]
    /\ \A r \in Req : pc[r] = "analyze" => extractDir[r] \in dirExists

(* C9: a request with no uploaded file is answered 400, and a POST /upload *)
(* whose archive holds no package.json is answered 400 with the body       *)
(* {error: "No package.json found"}.                                       *)
C9_UserErrorsGet400 ==
    \A r \in Req :
        pc[r] = "done" =>
            /\ ~hasFile[r] => (client[r] # <<>> /\ client[r][1].status = 400)
            /\ (endpoint[r] = "upload" /\ archive[r] = NoPkg) =>
                  client[r] = <<Resp(400, Error("No package.json found"))>>

(* C10: a handler that has finished has sent exactly one response.         *)
C10_ExactlyOneResponse ==
    \A r \in Req : pc[r] = "done" => Len(sent[r]) = 1

====
